---------------------------- MODULE Spec2Model ----------------------------
(***************************************************************************)
(* gogo: run Go source like a script, with a content-addressed build      *)
(* cache.  The model covers the two front ends of the repository:         *)
(*   - "gogo"  (src/unnamed/part_000): flags -once / -clear / -ver, the   *)
(*     cache under <UserCacheDir>/gogo/<fingerprint>/, runCached/runOnce; *)
(*   - "gorun" (src/cmd/main.go): the cacheless front end,                *)
(*     runWithGoModule.                                                   *)
(* Bytes are one-character strings, a source is a sequence of bytes.      *)
(* The file system is the cache tree plus one build workspace per         *)
(* invocation; the Go toolchain, the user's program and the operating     *)
(* system's I/O are the environment, whose outcomes are chosen            *)
(* nondeterministically at each call.                                     *)
(***************************************************************************)
EXTENDS Naturals, Sequences, FiniteSets, TLC

(* ------------------------------ bounds -------------------------------- *)
\* Invocation slots.  Under Spec invocations follow one another; under
\* SpecConc they overlap.
NumProcs == 2
\* Invocations started in one behaviour.
MaxInvocations == 2
\* The clock runs from 0 to MaxTime, in days.
MaxTime == 4
\* The user's program ends with an exit status in 0 .. MaxStatus.
MaxStatus == 2
\* The longest byte sequence stripShebang is applied to on its own.
MaxLen == 6
\* The most lines a compiler output given to parseGoErrors is joined from.
MaxLines == 3

(* ------------------------- program constants -------------------------- *)
\* 3*24*time.Hour, in days (the clock's unit).
TTL == 3

Procs == 1 .. NumProcs
Statuses == 0 .. MaxStatus
Time  == 0 .. MaxTime

(* ------------------------------- bytes -------------------------------- *)
NL == "\n"
\* The white space strings.TrimSpace removes, as far as the inputs use it.
WhiteSpace == {" ", "\t", "\r", NL}

PackageKw == <<"p", "a", "c", "k", "a", "g", "e", " ">>
CommentKw == <<"/", "/">>

\* The inputs an invocation may be given (readInput's result).
SrcEmpty        == << >>
SrcPlain        == PackageKw \o <<"m">>
SrcShebang      == <<"#", "!", "g", NL>> \o SrcPlain
SrcUnterminated == <<"#", "!", "g">>
SrcNoPackage    == CommentKw \o <<NL, "f">>
Inputs == {SrcEmpty, SrcPlain, SrcShebang, SrcUnterminated, SrcNoPackage}

HasPrefix(s, prefix) ==
    /\ Len(s) >= Len(prefix)
    /\ SubSeq(s, 1, Len(prefix)) = prefix

RECURSIVE TrimLeft(_)
TrimLeft(s) ==
    IF s # << >> /\ Head(s) \in WhiteSpace THEN TrimLeft(Tail(s)) ELSE s

RECURSIVE TrimRight(_)
TrimRight(s) ==
    IF s # << >> /\ s[Len(s)] \in WhiteSpace
    THEN TrimRight(SubSeq(s, 1, Len(s) - 1))
    ELSE s

TrimSpace(s) == TrimRight(TrimLeft(s))

\* The 1-based position of the first b in s at or after position from; 0 if none.
IndexFrom(s, b, from) ==
    IF \E i \in from .. Len(s) : s[i] = b
    THEN CHOOSE i \in from .. Len(s) :
             /\ s[i] = b
             /\ \A j \in from .. (i - 1) : s[j] # b
    ELSE 0

\* bufio.ScanLines: a trailing carriage return of a line is dropped.
DropCR(line) ==
    IF line # << >> /\ line[Len(line)] = "\r"
    THEN SubSeq(line, 1, Len(line) - 1)
    ELSE line

\* bufio.Scanner over the bytes: the lines, without their terminators; a
\* final line with no terminator counts when it is not empty.
RECURSIVE ScanLines(_)
ScanLines(code) ==
    IF code = << >> THEN << >>
    ELSE LET i == IndexFrom(code, NL, 1) IN
         IF i = 0 THEN <<DropCR(code)>>
         ELSE <<DropCR(SubSeq(code, 1, i - 1))>>
                  \o ScanLines(SubSeq(code, i + 1, Len(code)))

\* validateCode's loop over the scanned lines: TRUE for a nil error.
RECURSIVE ValidateLines(_)
ValidateLines(lines) ==
    IF lines = << >> THEN FALSE
    ELSE LET line == TrimSpace(Head(lines)) IN
         IF line = << >> \/ HasPrefix(line, CommentKw)
         THEN ValidateLines(Tail(lines))
         ELSE HasPrefix(line, PackageKw)

validateCode(code) == ValidateLines(ScanLines(code))

\* stripShebang's error result: TRUE for "incorrect data received".
stripShebangErr(code) ==
    /\ Len(code) > 2
    /\ code[1] = "#"
    /\ code[2] = "!"
    /\ IndexFrom(code, NL, 3) = 0

\* A stripShebang that takes a leading "#" alone for the marker.
stripShebang_HashOnly(code) ==
    IF Len(code) > 2 /\ code[1] = "#"
    THEN LET i == IndexFrom(code, NL, 3) IN
         IF i = 0 THEN code ELSE SubSeq(code, i + 1, Len(code))
    ELSE code

\* stripShebang's byte result.
stripShebang(code) ==
    IF Len(code) > 2 /\ code[1] = "#" /\ code[2] = "!"
    THEN LET i == IndexFrom(code, NL, 3) IN
         IF i = 0 THEN code ELSE SubSeq(code, i + 1, Len(code))
    ELSE code

\* The byte values of the characters the inputs use.
ByteOf ==
    ("#" :> 35) @@ ("!" :> 33) @@ (NL :> 10) @@ (" " :> 32) @@ ("/" :> 47)
    @@ ("a" :> 97) @@ ("c" :> 99) @@ ("e" :> 101) @@ ("f" :> 102)
    @@ ("g" :> 103) @@ ("k" :> 107) @@ ("m" :> 109) @@ ("p" :> 112)

\* sha256.Sum256(code), hex, cut to 16 characters: a deterministic digest of
\* the exact bytes.  The model's digest is a polynomial one over a smaller
\* space; it is injective on the sources of the model (DigestInjective).
RECURSIVE hashStr(_)
hashStr(code) ==
    IF code = << >> THEN 7
    ELSE (hashStr(SubSeq(code, 1, Len(code) - 1)) * 31
              + ByteOf[code[Len(code)]]) % 65536

\* Every byte sequence runCached can be given: an input, or an input with
\* its directive line stripped.
Codes == Inputs \cup {stripShebang(c) : c \in Inputs}
Fingerprints == {hashStr(c) : c \in Codes}
DigestInjective == \A c, d \in Codes : hashStr(c) = hashStr(d) => c = d

(* ------------------------ the diagnostic parser ----------------------- *)
\* The categories splitErrorType knows (lines 91-92).
TypUndefined ==
    <<"u", "n", "d", "e", "f", "i", "n", "e", "d">>
TypNoPackage ==
    <<"c", "a", "n", "n", "o", "t", " ", "f", "i", "n", "d", " ", "p", "a",
      "c", "k", "a", "g", "e">>
TypUnusedImport ==
    <<"i", "m", "p", "o", "r", "t", "e", "d", " ", "a", "n", "d", " ", "n",
      "o", "t", " ", "u", "s", "e", "d">>
TypUnusedVar ==
    <<"d", "e", "c", "l", "a", "r", "e", "d", " ", "b", "u", "t", " ", "n",
      "o", "t", " ", "u", "s", "e", "d">>
TypSyntax ==
    <<"s", "y", "n", "t", "a", "x", " ", "e", "r", "r", "o", "r">>
TypInvalidOp ==
    <<"i", "n", "v", "a", "l", "i", "d", " ", "o", "p", "e", "r", "a", "t",
      "i", "o", "n">>
ErrorTypes == {TypUndefined, TypNoPackage, TypUnusedImport,
               TypUnusedVar, TypSyntax, TypInvalidOp}
TypError == <<"e", "r", "r", "o", "r">>

\* The lines the compiler's output is made of: blank ones, free text (plain
\* and indented), diagnostics (with a category, without, with a carriage
\* return at the end, with colons in the file part), and near misses.
LineBlank ==
    <<>>
LineSpaces ==
    <<" ", "\t">>
LineNote ==
    <<"n", "o", "t", "e">>
LineIndented ==
    <<"\t", "h", "a", "v", "e">>
LineUndefined ==
    <<"m", ".", "g", "o", ":", "1", "0", ":", "5", ":", " ", "u", "n", "d",
      "e", "f", "i", "n", "e", "d", ":", " ", "f", "o", "o">>
LinePlain ==
    <<"m", ".", "g", "o", ":", "3", ":", "1", ":", " ", "x">>
LineCR ==
    <<"m", ".", "g", "o", ":", "3", ":", "1", ":", " ", "x", "\r">>
LineColons ==
    <<"a", ":", "1", ":", "2", ":", "3", ":", "4", ":", "x">>
LineNoMessage ==
    <<"m", ".", "g", "o", ":", "3", ":", "1", ":">>
LineNoColumn ==
    <<"m", ".", "g", "o", ":", "3", ":", " ", "x">>
LineTexts == {LineBlank, LineSpaces, LineNote, LineIndented, LineUndefined,
              LinePlain, LineCR, LineColons, LineNoMessage, LineNoColumn}

\* \d and \s of the regular expression.
Digits == {"0", "1", "2", "3", "4", "5", "6", "7", "8", "9"}
DigitVal ==
    ("0" :> 0) @@ ("1" :> 1) @@ ("2" :> 2) @@ ("3" :> 3) @@ ("4" :> 4)
    @@ ("5" :> 5) @@ ("6" :> 6) @@ ("7" :> 7) @@ ("8" :> 8) @@ ("9" :> 9)
RegexSpace == {" ", "\t", NL, "\r", "\f"}

\* strconv.Atoi of a run of digits.
RECURSIVE Atoi(_)
Atoi(d) ==
    IF d = << >> THEN 0
    ELSE Atoi(SubSeq(d, 1, Len(d) - 1)) * 10 + DigitVal[d[Len(d)]]

\* strings.Split(s, "\n"): at least one piece, the pieces without "\n".
RECURSIVE Split(_)
Split(s) ==
    LET i == IndexFrom(s, NL, 1) IN
    IF i = 0 THEN <<s>>
    ELSE <<SubSeq(s, 1, i - 1)>> \o Split(SubSeq(s, i + 1, Len(s)))

\* strings.Join(pieces, "\n").
RECURSIVE Join(_)
Join(pieces) ==
    IF pieces = << >> THEN << >>
    ELSE IF Len(pieces) = 1 THEN pieces[1]
    ELSE pieces[1] \o <<NL>> \o Join(Tail(pieces))

\* The greedy \s*: s without its leading white space.
RECURSIVE SkipSpace(_)
SkipSpace(s) ==
    IF s # << >> /\ Head(s) \in RegexSpace THEN SkipSpace(Tail(s)) ELSE s

IsNumber(d) == d # << >> /\ \A i \in 1 .. Len(d) : d[i] \in Digits

\* The groups of ^(.+)\:(\d+)\:(\d+)\:\s*(.+)$ when group 1 ends right
\* before position i: << >> when the rest of line does not match.
GroupsAt(line, i) ==
    LET j == IndexFrom(line, ":", i + 1)
        k == IF j = 0 THEN 0 ELSE IndexFrom(line, ":", j + 1)
    IN
    IF i < 2 \/ i > Len(line) \/ k = 0 THEN << >>
    ELSE LET file == SubSeq(line, 1, i - 1)
             num  == SubSeq(line, i + 1, j - 1)
             col  == SubSeq(line, j + 1, k - 1)
             rest == SubSeq(line, k + 1, Len(line))
             msg  == IF SkipSpace(rest) # << >> THEN SkipSpace(rest)
                     ELSE IF rest # << >> THEN <<rest[Len(rest)]>>
                     ELSE << >>
         IN
         IF /\ line[i] = ":" /\ IsNumber(num) /\ IsNumber(col) /\ msg # << >>
            /\ \A c \in 1 .. Len(line) : line[c] # NL
         THEN <<line, file, num, col, msg>>
         ELSE << >>

\* errorPattern.FindStringSubmatch(line), line 54: the whole match and the
\* four groups, the first group as long as a match allows; << >> for no match.
FindStringSubmatch(line) ==
    LET ok == {i \in 1 .. Len(line) : GroupsAt(line, i) # << >>} IN
    IF ok = {} THEN << >>
    ELSE GroupsAt(line, CHOOSE i \in ok : \A h \in ok : h <= i)

\* splitErrorType (lines 87-97): the category before the first colon when it
\* is a known one, with the trimmed rest; else "error" and the whole message.
splitErrorType(msg) ==
    LET idx == IndexFrom(msg, ":", 1) IN
    IF idx > 1 /\ SubSeq(msg, 1, idx - 1) \in ErrorTypes
    THEN [typ |-> SubSeq(msg, 1, idx - 1),
          desc |-> TrimSpace(SubSeq(msg, idx + 1, Len(msg)))]
    ELSE [typ |-> TypError, desc |-> msg]

\* What parseGoErrors prints for one line (lines 49-80): nothing for a blank
\* line, the line for one that does not match, else the rendered diagnostic.
EntriesOf(rawLine) ==
    LET line == TrimSpace(rawLine)
        matches == FindStringSubmatch(line)
    IN
    IF line = << >> THEN << >>
    ELSE IF Len(matches) # 5
    THEN << [kind |-> "passthrough", text |-> line] >>
    ELSE << [kind |-> "diagnostic",
             file |-> matches[2],
             line |-> Atoi(matches[3]),
             col  |-> matches[4],
             typ  |-> splitErrorType(matches[5]).typ,
             desc |-> splitErrorType(matches[5]).desc] >>

RECURSIVE ParseLines(_)
ParseLines(lines) ==
    IF lines = << >> THEN << >>
    ELSE EntriesOf(Head(lines)) \o ParseLines(Tail(lines))

\* parseGoErrors (lines 44-85): the entries printed, in order, and whether
\* the closing "Compilation failed" banner was printed (foundErrors).
parseGoErrors(rawOutput) ==
    LET entries == ParseLines(Split(rawOutput)) IN
    [entries |-> entries,
     banner  |-> \E k \in 1 .. Len(entries) : entries[k].kind = "diagnostic"]

(* ------------------------------- state -------------------------------- *)
VARIABLES
    cache,       \* fingerprint -> the entry directory <root>/gogo/<fingerprint>
    rootExists,  \* whether <UserCacheDir>/gogo exists
    now,         \* the wall clock, in days
    started,     \* invocations started so far
    prev,        \* what the last finished invocation was (history)
    proc,        \* per invocation slot: its position and local variables
    call         \* a function of the program applied on its own (SpecStrip,
                 \* SpecParse)

vars == <<cache, rootExists, now, started, prev, proc, call>>

\* An entry directory: whether it exists, and whether it holds main.go (the
\* source copy), the binary run / run.exe (with its modification time) and
\* meta.txt.
EmptyEntry ==
    [dir |-> FALSE, src |-> FALSE, bin |-> FALSE, binTime |-> 0, meta |-> FALSE]

EmptyCache == [f \in Fingerprints |-> EmptyEntry]

NoPrev == [ok |-> FALSE, input |-> << >>, start |-> 0]

\* A slot with no invocation in it.
IdleState ==
    [pc       |-> "idle",
     frontend |-> "gogo",   \* "gogo" (part_000) or "gorun" (cmd/main.go)
     cmd      |-> "run",    \* "ver" (-ver), "clear" (-clear) or "run"
     noCache  |-> FALSE,    \* -once
     input    |-> << >>,    \* readInput's bytes
     code     |-> << >>,    \* main's variable code
     pass     |-> 0,        \* which of main's calls of the pipeline runs
     ws       |-> FALSE,    \* whether this invocation's tmpDir exists
     err      |-> "",       \* the pipeline's error result, "" for nil
     lookup   |-> "none",   \* runCached's lookup: "hit" or "miss"
     exitCode |-> 0,        \* meaningful at pc = "done"
     outcome  |-> "",       \* what main reported at its end
     stream   |-> "",       \* where the usage text went: "stdout", "stderr"
     ran      |-> FALSE,    \* a binary launched by runBinary has ended (history)
     progExit |-> 0,        \* the exit status that binary ended with (history)
     errCode  |-> 0,        \* the exit status runBinary's result carries
     stderr   |-> << >>,    \* what the failed go build wrote to its stderr
     rendered |-> << >>,    \* what parseGoErrors has printed (history)
     disturbed |-> FALSE,   \* another invocation removed the binary after this
                            \* one's lookup or build, before its launch (history)
     start    |-> 0,        \* the clock when the invocation started
     hadEntry |-> FALSE,    \* the input's entry directory existed at the read
     cache0   |-> EmptyCache, \* the cache as runCached found it (history)
     nLookup  |-> 0,        \* cache lookups so far (history)
     nWs      |-> 0,        \* workspaces created so far (history)
     nTidy    |-> 0,        \* go mod tidy subprocesses so far (history)
     nBuild   |-> 0,        \* go build / go run subprocesses so far (history)
     nExec    |-> 0]        \* launches of the user's program so far (history)

\* No function is being applied on its own.
NoCall == [fn |-> "none", arg |-> << >>, res |-> << >>, errs |-> << >>]

Init ==
    /\ cache = EmptyCache
    /\ rootExists = FALSE
    /\ now = 0
    /\ started = 0
    /\ prev = NoPrev
    /\ proc = [p \in Procs |-> IdleState]
    /\ call = NoCall

Set(p, s) == proc' = [proc EXCEPT ![p] = s]

SetEntry(f, e) == cache' = [cache EXCEPT ![f] = e]

\* Set(p, s) in a step that removes entries: every other invocation that
\* stands between its lookup or build and its launch, and whose binary the
\* step removes, is marked.
SetRemoving(p, s) ==
    proc' = [q \in Procs |->
                IF q = p THEN s
                ELSE LET f == hashStr(proc[q].code) IN
                     IF /\ proc[q].pc \in {"rc_chmod", "rc_meta", "rc_spawn"}
                        /\ cache[f].bin /\ ~cache'[f].bin
                     THEN [proc[q] EXCEPT !.disturbed = TRUE]
                     ELSE proc[q]]

\* getCachePaths: the entry directory of code, named by its fingerprint.
getCachePaths(code) == hashStr(code)

\* main's os.Exit(c) / return, with what it printed.
DoneWith(s, c, what) == [s EXCEPT !.pc = "done", !.exitCode = c, !.outcome = what]

\* The usage text printed to a stream, then os.Exit(c) or return.
Usage(s, c, to) == [DoneWith(s, c, "usage") EXCEPT !.stream = to]

\* main's choice between runOnce and runCached.
Dispatch(s) == IF s.noCache THEN "ro_mktemp" ELSE "rc_lookup"

(* --------------------------- the toolchain ---------------------------- *)
\* What the Go compiler asks of a source file before anything else: after
\* white space and comments its first token is the package keyword.  go build
\* and go run can succeed only on such a file (and may fail on it too); on the
\* inputs of the model this is validateCode's test.
GoAccepts(code) == ValidateLines(ScanLines(code))

(* ----------------------------- the clock ------------------------------ *)
\* The clock's unit is a day: it moves between invocations and while the
\* user's program runs, the waits of unbounded length.
Tick ==
    /\ now < MaxTime
    /\ \A p \in Procs : proc[p].pc \in {"idle", "rc_running", "ro_running", "gw_running"}
    /\ now' = now + 1
    /\ UNCHANGED <<cache, rootExists, started, prev, proc, call>>

(* ------------------------- starting, finishing ------------------------ *)
\* A new invocation of gogo with its flags.  Invocations follow one another.
StartGogo(p) ==
    /\ proc[p].pc = "idle"
    /\ \A q \in Procs : proc[q].pc = "idle"
    /\ started < MaxInvocations
    /\ started' = started + 1
    /\ \E c \in {"ver", "clear", "run"}, once \in BOOLEAN :
           Set(p, [IdleState EXCEPT !.pc = "main", !.frontend = "gogo",
                                    !.cmd = c, !.noCache = once,
                                    !.start = now])
    /\ UNCHANGED <<cache, rootExists, now, prev, call>>

\* What a finished invocation leaves for the next one to compare with: ok
\* when it was a cached run of gogo in which go build ran and no step of a
\* build failed.
Summary(s) ==
    IF /\ s.frontend = "gogo" /\ s.cmd = "run" /\ ~s.noCache
       /\ s.nBuild >= 1
       /\ s.err \in {"", "exec failed", "exit status"}
    THEN [ok |-> TRUE, input |-> s.input, start |-> s.start]
    ELSE NoPrev

\* The process is gone; its slot is free again.
Exit(p) ==
    /\ proc[p].pc = "done"
    /\ prev' = Summary(proc[p])
    /\ Set(p, IdleState)
    /\ UNCHANGED <<cache, rootExists, now, started, call>>

(* ----------------------------- gogo: main ----------------------------- *)
\* -ver: prints the version and returns.
Main_ShowVersion(p) ==
    /\ proc[p].pc = "main" /\ proc[p].frontend = "gogo"
    /\ proc[p].cmd = "ver"
    /\ Set(p, DoneWith(proc[p], 0, "version"))
    /\ UNCHANGED <<cache, rootExists, now, started, prev, call>>

\* A clear that evicts only the entries whose binary is 3 days old or older.
RemovedTree_StaleOnly ==
    [f \in Fingerprints |->
        IF cache[f].bin /\ now - cache[f].binTime < TTL
        THEN cache[f] ELSE EmptyEntry]

\* os.RemoveAll(<root>/gogo) succeeded: the tree is gone.
RemovedTree == EmptyCache

\* -clear: clearAllCache.  os.UserCacheDir or os.RemoveAll may fail; a failed
\* RemoveAll has removed what it could (any set of entry directories) and
\* left the root.
Main_ClearCache(p) ==
    /\ proc[p].pc = "main" /\ proc[p].frontend = "gogo"
    /\ proc[p].cmd = "clear"
    /\ \/ /\ cache' = RemovedTree
          /\ rootExists' = FALSE
          /\ SetRemoving(p, DoneWith(proc[p], 0, "cleared"))
       \/ /\ \E gone \in SUBSET {f \in Fingerprints : cache[f].dir} :
                 cache' = [f \in Fingerprints |->
                              IF f \in gone THEN EmptyEntry ELSE cache[f]]
          /\ UNCHANGED rootExists
          /\ SetRemoving(p, DoneWith(proc[p], 1, "clear failed"))
    /\ UNCHANGED <<now, started, prev, call>>

\* readInput, then main's first call of the pipeline (lines 365-369), which
\* precedes the checks of the input.
Main_ReadInput(p) ==
    /\ proc[p].pc = "main" /\ proc[p].frontend = "gogo"
    /\ proc[p].cmd = "run"
    /\ \/ Set(p, DoneWith(proc[p], 1, "read error"))
       \/ \E in \in Inputs :
              Set(p, [proc[p] EXCEPT !.input = in, !.code = in, !.pass = 1,
                                     !.hadEntry = cache[getCachePaths(in)].dir,
                                     !.pc = Dispatch(proc[p])])
    /\ UNCHANGED <<cache, rootExists, now, started, prev, call>>

\* After the first call: its error ends the run; then the usage check,
\* validateCode and stripShebang; then the second call of the pipeline.
Main_AfterFirstRun(p) ==
    LET s == proc[p] IN
    /\ s.pc = "after_run" /\ s.frontend = "gogo" /\ s.pass = 1
    /\ Set(p, IF s.err # "" THEN DoneWith(s, 1, "run error")
              ELSE IF Len(s.code) = 0 THEN Usage(s, 1, "stderr")
              ELSE IF ~validateCode(s.code) THEN DoneWith(s, 1, "validation error")
              ELSE IF stripShebangErr(s.code) THEN DoneWith(s, 1, "shebang error")
              ELSE [s EXCEPT !.code = stripShebang(s.code), !.pass = 2,
                             !.lookup = "none", !.pc = Dispatch(s)])
    /\ UNCHANGED <<cache, rootExists, now, started, prev, call>>

\* A main that falls off its end whatever the second call returned.
Main_AfterSecondRun_ExitZero(p) ==
    LET s == proc[p] IN
    /\ s.pc = "after_run" /\ s.frontend = "gogo" /\ s.pass = 2
    /\ Set(p, DoneWith(s, 0, IF s.err # "" THEN "run error" ELSE "ok"))
    /\ UNCHANGED <<cache, rootExists, now, started, prev, call>>

\* After the second call: exit 1 on its error, else the end of main.
Main_AfterSecondRun(p) ==
    LET s == proc[p] IN
    /\ s.pc = "after_run" /\ s.frontend = "gogo" /\ s.pass = 2
    /\ Set(p, IF s.err # "" THEN DoneWith(s, 1, "run error")
              ELSE DoneWith(s, 0, "ok"))
    /\ UNCHANGED <<cache, rootExists, now, started, prev, call>>

(* -------------------------- gogo: runCached -------------------------- *)
\* runCached returns e before its defer is registered (lines 244-263).
Returned(s, e) == [s EXCEPT !.pc = "after_run", !.err = e]

\* A runCached whose return leaves the workspace (the defer forgotten).
RunCachedReturn_NoDefer(s, e) == [s EXCEPT !.pc = "after_run", !.err = e]

\* runCached returns e after line 265: the deferred os.RemoveAll(tmpDir) runs.
RunCachedReturn(s, e) == [Returned(s, e) EXCEPT !.ws = FALSE]

\* A lookup with the comparison turned round.
IsFresh_Inverted(e, t) == e.bin /\ t - e.binTime > TTL

\* A lookup that takes an age of exactly 3 days for fresh.
IsFresh_Inclusive(e, t) == e.bin /\ t - e.binTime <= TTL

\* A lookup that does not stat the binary.
IsFresh_NoStat(e, t) == t - e.binTime < TTL

\* The lookup's test (lines 241-242): os.Stat(binaryPath) succeeds and the
\* binary's age is less than 3 days.
IsFresh(e, t) == e.bin /\ t - e.binTime < TTL

\* Lines 239-246: a fresh binary is run at once, anything else is rebuilt.
RunCached_Lookup(p) ==
    LET s == proc[p]
        f == getCachePaths(s.code)
        s1 == [s EXCEPT !.cache0 = cache, !.nLookup = @ + 1,
                        !.disturbed = FALSE]
    IN
    /\ s.pc = "rc_lookup"
    /\ Set(p, IF IsFresh(cache[f], now)
              THEN [s1 EXCEPT !.lookup = "hit", !.pc = "rc_spawn"]
              ELSE [s1 EXCEPT !.lookup = "miss", !.pc = "rc_mkdir"])
    /\ UNCHANGED <<cache, rootExists, now, started, prev, call>>

\* Line 249: os.MkdirAll(cacheDir).
RunCached_MkdirAll(p) ==
    LET s == proc[p]
        f == getCachePaths(s.code)
    IN
    /\ s.pc = "rc_mkdir"
    /\ \/ /\ SetEntry(f, [cache[f] EXCEPT !.dir = TRUE])
          /\ rootExists' = TRUE
          /\ Set(p, [s EXCEPT !.pc = "rc_writesrc"])
       \/ /\ UNCHANGED <<cache, rootExists>>
          /\ Set(p, Returned(s, "mkdir failed"))
    /\ UNCHANGED <<now, started, prev, call>>

\* Lines 254-258: the source copy main.go in the entry directory.
RunCached_WriteSource(p) ==
    LET s == proc[p]
        f == getCachePaths(s.code)
    IN
    /\ s.pc = "rc_writesrc"
    /\ \/ /\ cache[f].dir
          /\ SetEntry(f, [cache[f] EXCEPT !.src = TRUE])
          /\ Set(p, [s EXCEPT !.pc = "rc_mktemp"])
       \/ /\ UNCHANGED cache
          /\ Set(p, Returned(s, "write failed"))
    /\ UNCHANGED <<rootExists, now, started, prev, call>>

\* Lines 261-265: os.MkdirTemp, and the defer that removes it.
RunCached_MkdirTemp(p) ==
    LET s == proc[p] IN
    /\ s.pc = "rc_mktemp"
    /\ \/ Set(p, [s EXCEPT !.ws = TRUE, !.nWs = @ + 1, !.pc = "rc_module"])
       \/ Set(p, Returned(s, "mktemp failed"))
    /\ UNCHANGED <<cache, rootExists, now, started, prev, call>>

\* Lines 267-269: createModule writes go.mod and main.go into the workspace.
RunCached_CreateModule(p) ==
    LET s == proc[p] IN
    /\ s.pc = "rc_module"
    /\ \/ Set(p, [s EXCEPT !.pc = "rc_tidy"])
       \/ Set(p, RunCachedReturn(s, "write failed"))
    /\ UNCHANGED <<cache, rootExists, now, started, prev, call>>

\* Lines 272-278: go mod tidy in the workspace.
RunCached_Tidy(p) ==
    LET s == proc[p]
        s1 == [s EXCEPT !.nTidy = @ + 1]
    IN
    /\ s.pc = "rc_tidy"
    /\ \/ Set(p, [s1 EXCEPT !.pc = "rc_build"])
       \/ Set(p, RunCachedReturn(s1, "go mod tidy failed"))
    /\ UNCHANGED <<cache, rootExists, now, started, prev, call>>

\* What a failing go build may leave in the stderr buffer: nothing, a
\* diagnostic, free text.
BuildOutputs == {<< >>, LineUndefined, LineNote}

\* A buildWith that reports a compile failure without printing the diagnostics.
buildWith_Silent(p) ==
    LET s == proc[p]
        f == getCachePaths(s.code)
        s1 == [s EXCEPT !.nBuild = @ + 1]
    IN
    /\ s.pc = "rc_build"
    /\ \/ /\ GoAccepts(s.code)
          /\ SetEntry(f, [cache[f] EXCEPT !.dir = TRUE, !.bin = TRUE,
                                          !.binTime = now])
          /\ rootExists' = TRUE
          /\ Set(p, [s1 EXCEPT !.pc = "rc_chmod"])
       \/ /\ \E out \in BuildOutputs :
                 Set(p, IF out = << >>
                        THEN [s1 EXCEPT !.err = "build failed",
                                        !.stderr = out, !.pc = "rc_rollback"]
                        ELSE [s1 EXCEPT !.err = "compilation failed",
                                        !.stderr = out, !.pc = "rc_rollback"])
          /\ UNCHANGED <<cache, rootExists>>
    /\ UNCHANGED <<now, started, prev, call>>

\* buildWith (lines 127-147), called at line 282: go build -o binaryPath.
\* On success the binary is written (its modification time is now); on a
\* non-zero exit with an empty stderr buffer its result is "build failed";
\* with a non-empty one parseGoErrors prints the diagnostics and the result
\* is "compilation failed".
buildWith(p) ==
    LET s == proc[p]
        f == getCachePaths(s.code)
        s1 == [s EXCEPT !.nBuild = @ + 1]
    IN
    /\ s.pc = "rc_build"
    /\ \/ /\ GoAccepts(s.code)
          /\ SetEntry(f, [cache[f] EXCEPT !.dir = TRUE, !.bin = TRUE,
                                          !.binTime = now])
          /\ rootExists' = TRUE
          /\ Set(p, [s1 EXCEPT !.pc = "rc_chmod"])
       \/ /\ \E out \in BuildOutputs :
                 Set(p, IF out = << >>
                        THEN [s1 EXCEPT !.err = "build failed",
                                        !.stderr = out, !.pc = "rc_rollback"]
                        ELSE [s1 EXCEPT !.err = "compilation failed",
                                        !.stderr = out,
                                        !.rendered = Append(@, parseGoErrors(out)),
                                        !.pc = "rc_rollback"])
          /\ UNCHANGED <<cache, rootExists>>
    /\ UNCHANGED <<now, started, prev, call>>

\* A rollback that removes the binary and the metadata, not the directory.
RolledBack_FilesOnly(e) == [e EXCEPT !.bin = FALSE, !.meta = FALSE]

\* os.RemoveAll(cacheDir): the entry directory and all it holds are gone.
RolledBack(e) == EmptyEntry

\* Lines 282-285: after a failed build the entry directory is removed and
\* the build's error returned.
RunCached_Rollback(p) ==
    LET s == proc[p]
        f == getCachePaths(s.code)
    IN
    /\ s.pc = "rc_rollback"
    /\ SetEntry(f, RolledBack(cache[f]))
    /\ SetRemoving(p, RunCachedReturn(s, s.err))
    /\ UNCHANGED <<rootExists, now, started, prev, call>>

\* Lines 287-289: os.Chmod(binaryPath, 0755), its error dropped.
RunCached_Chmod(p) ==
    LET s == proc[p] IN
    /\ s.pc = "rc_chmod"
    /\ Set(p, [s EXCEPT !.pc = "rc_meta"])
    /\ UNCHANGED <<cache, rootExists, now, started, prev, call>>

\* Lines 291-295: meta.txt is written, the write's error dropped.
RunCached_WriteMeta(p) ==
    LET s == proc[p]
        f == getCachePaths(s.code)
    IN
    /\ s.pc = "rc_meta"
    /\ \/ /\ cache[f].dir
          /\ SetEntry(f, [cache[f] EXCEPT !.meta = TRUE])
       \/ UNCHANGED cache
    /\ Set(p, [s EXCEPT !.pc = "rc_spawn"])
    /\ UNCHANGED <<rootExists, now, started, prev, call>>

\* runBinary (lines 334-340), called at lines 244 and 297: cmd.Run starts
\* the binary; the start fails when the binary is missing or cannot be run.
runBinary_Start(p) ==
    LET s == proc[p]
        f == getCachePaths(s.code)
        back(e) == IF s.lookup = "hit" THEN Returned(s, e)
                   ELSE RunCachedReturn(s, e)
    IN
    /\ s.pc = "rc_spawn"
    /\ \/ /\ cache[f].bin
          /\ Set(p, [s EXCEPT !.nExec = @ + 1, !.pc = "rc_running"])
       \/ Set(p, back("exec failed"))
    /\ UNCHANGED <<cache, rootExists, now, started, prev, call>>

\* A runner that reports every non-zero end of the program as status 1.
runBinary_Result_Flattened(st) ==
    [err |-> IF st = 0 THEN "" ELSE "exit status",
     code |-> IF st = 0 THEN 0 ELSE 1]

\* Line 339, return cmd.Run(): nil when the program ended with status 0,
\* else the *exec.ExitError that carries the program's status.
runBinary_Result(st) ==
    [err |-> IF st = 0 THEN "" ELSE "exit status", code |-> st]

\* cmd.Run returns when the user's program ends; runCached returns its result.
runBinary_Wait(p) ==
    LET s == proc[p]
        back(e) == IF s.lookup = "hit" THEN Returned(s, e)
                   ELSE RunCachedReturn(s, e)
    IN
    /\ s.pc = "rc_running"
    /\ \E st \in Statuses :
           LET r == runBinary_Result(st) IN
           Set(p, [back(r.err) EXCEPT !.ran = TRUE, !.progExit = st,
                                      !.errCode = r.code])
    /\ UNCHANGED <<cache, rootExists, now, started, prev, call>>

(* --------------------------- gogo: runOnce ---------------------------- *)
\* runOnce returns e after line 307: the deferred os.RemoveAll(tmpDir) runs.
RunOnceReturn(s, e) == [Returned(s, e) EXCEPT !.ws = FALSE]

\* Lines 302-307: os.MkdirTemp, and the defer that removes it.
RunOnce_MkdirTemp(p) ==
    LET s == proc[p] IN
    /\ s.pc = "ro_mktemp"
    /\ \/ Set(p, [s EXCEPT !.ws = TRUE, !.nWs = @ + 1, !.pc = "ro_module"])
       \/ Set(p, Returned(s, "mktemp failed"))
    /\ UNCHANGED <<cache, rootExists, now, started, prev, call>>

\* Lines 309-311: createModule.
RunOnce_CreateModule(p) ==
    LET s == proc[p] IN
    /\ s.pc = "ro_module"
    /\ \/ Set(p, [s EXCEPT !.pc = "ro_tidy"])
       \/ Set(p, RunOnceReturn(s, "write failed"))
    /\ UNCHANGED <<cache, rootExists, now, started, prev, call>>

\* Lines 314-320: go mod tidy.
RunOnce_Tidy(p) ==
    LET s == proc[p]
        s1 == [s EXCEPT !.nTidy = @ + 1]
    IN
    /\ s.pc = "ro_tidy"
    /\ \/ Set(p, [s1 EXCEPT !.pc = "ro_gorun"])
       \/ Set(p, RunOnceReturn(s1, "go mod tidy failed"))
    /\ UNCHANGED <<cache, rootExists, now, started, prev, call>>

\* Lines 325-331: go run . compiles the program, and runs it when it compiled.
RunOnce_GoRun(p) ==
    LET s == proc[p]
        s1 == [s EXCEPT !.nBuild = @ + 1]
    IN
    /\ s.pc = "ro_gorun"
    /\ \/ /\ GoAccepts(s.code)
          /\ Set(p, [s1 EXCEPT !.nExec = @ + 1, !.pc = "ro_running"])
       \/ Set(p, RunOnceReturn(s1, "exit status"))
    /\ UNCHANGED <<cache, rootExists, now, started, prev, call>>

\* Line 331: cmd.Run returns when the user's program ends.
RunOnce_Wait(p) ==
    LET s == proc[p] IN
    /\ s.pc = "ro_running"
    /\ \E e \in {"", "exit status"} : Set(p, RunOnceReturn(s, e))
    /\ UNCHANGED <<cache, rootExists, now, started, prev, call>>

(* ------------------------ gorun: cmd/main.go -------------------------- *)
\* A new invocation of the cacheless front end; it has no flags.
StartGorun(p) ==
    /\ proc[p].pc = "idle"
    /\ \A q \in Procs : proc[q].pc = "idle"
    /\ started < MaxInvocations
    /\ started' = started + 1
    /\ Set(p, [IdleState EXCEPT !.pc = "main", !.frontend = "gorun",
                                !.noCache = TRUE, !.start = now])
    /\ UNCHANGED <<cache, rootExists, now, prev, call>>

\* main, lines 108-135: readInput, the usage text for an empty input (and a
\* plain return), validateCode, stripShebang, then runWithGoModule.
Gorun_Main(p) ==
    LET s == proc[p] IN
    /\ s.pc = "main" /\ s.frontend = "gorun"
    /\ \/ Set(p, DoneWith(s, 1, "read error"))
       \/ \E in \in Inputs :
              LET s1 == [s EXCEPT !.input = in, !.code = in] IN
              Set(p, IF Len(in) = 0 THEN Usage(s1, 0, "stdout")
                     ELSE IF ~validateCode(in) THEN DoneWith(s1, 1, "validation error")
                     ELSE IF stripShebangErr(in) THEN DoneWith(s1, 1, "shebang error")
                     ELSE [s1 EXCEPT !.code = stripShebang(in), !.pass = 1,
                                     !.pc = "gw_mktemp"])
    /\ UNCHANGED <<cache, rootExists, now, started, prev, call>>

\* runWithGoModule returns e after line 58: the deferred os.RemoveAll runs.
RunWithGoModuleReturn(s, e) == [Returned(s, e) EXCEPT !.ws = FALSE]

\* Lines 53-58: os.MkdirTemp, and the defer that removes it.
RunWithGoModule_MkdirTemp(p) ==
    LET s == proc[p] IN
    /\ s.pc = "gw_mktemp"
    /\ \/ Set(p, [s EXCEPT !.ws = TRUE, !.nWs = @ + 1, !.pc = "gw_gomod"])
       \/ Set(p, Returned(s, "mktemp failed"))
    /\ UNCHANGED <<cache, rootExists, now, started, prev, call>>

\* Lines 70-74: go.mod is written.
RunWithGoModule_WriteGoMod(p) ==
    LET s == proc[p] IN
    /\ s.pc = "gw_gomod"
    /\ \/ Set(p, [s EXCEPT !.pc = "gw_maingo"])
       \/ Set(p, RunWithGoModuleReturn(s, "write failed"))
    /\ UNCHANGED <<cache, rootExists, now, started, prev, call>>

\* Lines 76-79: main.go is written.
RunWithGoModule_WriteMain(p) ==
    LET s == proc[p] IN
    /\ s.pc = "gw_maingo"
    /\ \/ Set(p, [s EXCEPT !.pc = "gw_tidy"])
       \/ Set(p, RunWithGoModuleReturn(s, "write failed"))
    /\ UNCHANGED <<cache, rootExists, now, started, prev, call>>

\* Lines 81-90: go mod tidy.
RunWithGoModule_Tidy(p) ==
    LET s == proc[p]
        s1 == [s EXCEPT !.nTidy = @ + 1]
    IN
    /\ s.pc = "gw_tidy"
    /\ \/ Set(p, [s1 EXCEPT !.pc = "gw_gorun"])
       \/ Set(p, RunWithGoModuleReturn(s1, "go mod tidy failed"))
    /\ UNCHANGED <<cache, rootExists, now, started, prev, call>>

\* Lines 92-102: go run . compiles the program, and runs it when it compiled.
RunWithGoModule_GoRun(p) ==
    LET s == proc[p]
        s1 == [s EXCEPT !.nBuild = @ + 1]
    IN
    /\ s.pc = "gw_gorun"
    /\ \/ /\ GoAccepts(s.code)
          /\ Set(p, [s1 EXCEPT !.nExec = @ + 1, !.pc = "gw_running"])
       \/ Set(p, RunWithGoModuleReturn(s1, "exit status"))
    /\ UNCHANGED <<cache, rootExists, now, started, prev, call>>

\* Line 100: cmd.Run returns when the user's program ends.
RunWithGoModule_Wait(p) ==
    LET s == proc[p] IN
    /\ s.pc = "gw_running"
    /\ \E e \in {"", "exit status"} : Set(p, RunWithGoModuleReturn(s, e))
    /\ UNCHANGED <<cache, rootExists, now, started, prev, call>>

\* main, lines 135-143: exit 1 on runWithGoModule's error, else the end.
Gorun_AfterRun(p) ==
    LET s == proc[p] IN
    /\ s.pc = "after_run" /\ s.frontend = "gorun"
    /\ Set(p, IF s.err # "" THEN DoneWith(s, 1, "run error")
              ELSE DoneWith(s, 0, "ok"))
    /\ UNCHANGED <<cache, rootExists, now, started, prev, call>>

(* --------------------------- specification ---------------------------- *)
Next ==
    \/ Tick
    \/ \E p \in Procs :
           \/ StartGogo(p)
           \/ StartGorun(p)
           \/ Exit(p)
           \/ Main_ShowVersion(p)
           \/ Main_ClearCache(p)
           \/ Main_ReadInput(p)
           \/ Main_AfterFirstRun(p)
           \/ Main_AfterSecondRun(p)
           \/ RunCached_Lookup(p)
           \/ RunCached_MkdirAll(p)
           \/ RunCached_WriteSource(p)
           \/ RunCached_MkdirTemp(p)
           \/ RunCached_CreateModule(p)
           \/ RunCached_Tidy(p)
           \/ buildWith(p)
           \/ RunCached_Rollback(p)
           \/ RunCached_Chmod(p)
           \/ RunCached_WriteMeta(p)
           \/ runBinary_Start(p)
           \/ runBinary_Wait(p)
           \/ RunOnce_MkdirTemp(p)
           \/ RunOnce_CreateModule(p)
           \/ RunOnce_Tidy(p)
           \/ RunOnce_GoRun(p)
           \/ RunOnce_Wait(p)
           \/ Gorun_Main(p)
           \/ RunWithGoModule_MkdirTemp(p)
           \/ RunWithGoModule_WriteGoMod(p)
           \/ RunWithGoModule_WriteMain(p)
           \/ RunWithGoModule_Tidy(p)
           \/ RunWithGoModule_GoRun(p)
           \/ RunWithGoModule_Wait(p)
           \/ Gorun_AfterRun(p)

Spec == Init /\ [][Next]_vars

(* ----------------------- overlapping invocations ---------------------- *)
\* A new invocation of gogo on the shared cache, a cached run or a clear,
\* started while another may be under way.
StartConc(p) ==
    /\ proc[p].pc = "idle"
    /\ started < MaxInvocations
    /\ started' = started + 1
    /\ \E c \in {"clear", "run"} :
           Set(p, [IdleState EXCEPT !.pc = "main", !.frontend = "gogo",
                                    !.cmd = c, !.start = now])
    /\ UNCHANGED <<cache, rootExists, now, prev, call>>

\* The steps of cached runs and clears, interleaved in any order: nothing in
\* the program orders the steps of two processes.  The invocations overlap
\* within one day, so the clock stands still.
NextConc ==
    \/ \E p \in Procs :
           \/ StartConc(p)
           \/ Exit(p)
           \/ Main_ClearCache(p)
           \/ Main_ReadInput(p)
           \/ Main_AfterFirstRun(p)
           \/ Main_AfterSecondRun(p)
           \/ RunCached_Lookup(p)
           \/ RunCached_MkdirAll(p)
           \/ RunCached_WriteSource(p)
           \/ RunCached_MkdirTemp(p)
           \/ RunCached_CreateModule(p)
           \/ RunCached_Tidy(p)
           \/ buildWith(p)
           \/ RunCached_Rollback(p)
           \/ RunCached_Chmod(p)
           \/ RunCached_WriteMeta(p)
           \/ runBinary_Start(p)
           \/ runBinary_Wait(p)

SpecConc == Init /\ [][NextConc]_vars

(* ---------------------- stripShebang on its own ----------------------- *)
\* The bytes of the sequences: the two of the marker, the newline, another.
StripBytes == {"#", "!", NL, "x"}
ByteSeqs == UNION {[1 .. k -> StripBytes] : k \in 0 .. MaxLen}

\* Any byte sequence of up to MaxLen bytes is the argument.
InitStrip ==
    /\ cache = EmptyCache
    /\ rootExists = FALSE
    /\ now = 0
    /\ started = 0
    /\ prev = NoPrev
    /\ proc = [p \in Procs |-> IdleState]
    /\ \E x \in ByteSeqs :
           call = [fn |-> "stripShebang", arg |-> x, res |-> << >>, errs |-> << >>]

\* stripShebang is applied to the argument, then once more to its own byte
\* result when the first application returned no error.
ApplyStrip ==
    LET x == IF call.res = << >> THEN call.arg ELSE call.res[Len(call.res)] IN
    /\ call.fn = "stripShebang"
    /\ Len(call.res) < 2
    /\ \A i \in 1 .. Len(call.errs) : ~call.errs[i]
    /\ call' = [call EXCEPT !.res = Append(@, stripShebang(x)),
                            !.errs = Append(@, stripShebangErr(x))]
    /\ UNCHANGED <<cache, rootExists, now, started, prev, proc>>

NextStrip == ApplyStrip

SpecStrip == InitStrip /\ [][NextStrip]_vars

(* ---------------------- parseGoErrors on its own ---------------------- *)
\* The compiler outputs: up to MaxLines lines, joined by newlines.
RawOutputs == {Join(ls) : ls \in UNION {[1 .. k -> LineTexts] : k \in 0 .. MaxLines}}

\* Any of the compiler outputs is the argument.
InitParse ==
    /\ cache = EmptyCache
    /\ rootExists = FALSE
    /\ now = 0
    /\ started = 0
    /\ prev = NoPrev
    /\ proc = [p \in Procs |-> IdleState]
    /\ \E raw \in RawOutputs :
           call = [fn |-> "parseGoErrors", arg |-> raw, res |-> << >>,
                   errs |-> << >>]

\* parseGoErrors is applied to the argument.
ApplyParse ==
    /\ call.fn = "parseGoErrors"
    /\ call.res = << >>
    /\ call' = [call EXCEPT !.res = <<parseGoErrors(call.arg)>>]
    /\ UNCHANGED <<cache, rootExists, now, started, prev, proc>>

NextParse == ApplyParse

SpecParse == InitParse /\ [][NextParse]_vars

\* The shape of the state.
TypeOK ==
    /\ cache \in [Fingerprints ->
                     [dir : BOOLEAN, src : BOOLEAN, bin : BOOLEAN,
                      binTime : Time, meta : BOOLEAN]]
    /\ rootExists \in BOOLEAN
    /\ now \in Time
    /\ started \in 0 .. MaxInvocations
    /\ prev \in [ok : BOOLEAN, input : Inputs, start : Time]
    /\ \A p \in Procs :
           /\ proc[p].frontend \in {"gogo", "gorun"}
           /\ proc[p].cmd \in {"ver", "clear", "run"}
           /\ proc[p].input \in Inputs
           /\ proc[p].code \in Codes
           /\ proc[p].pass \in 0 .. 2
           /\ proc[p].exitCode \in {0, 1}
           /\ proc[p].lookup \in {"none", "hit", "miss"}
           /\ proc[p].stream \in {"", "stdout", "stderr"}
           /\ proc[p].ran \in BOOLEAN
           /\ proc[p].progExit \in Statuses
           /\ proc[p].errCode \in Statuses
           /\ proc[p].stderr \in BuildOutputs
           /\ Len(proc[p].rendered) <= 1
           /\ proc[p].disturbed \in BOOLEAN
    /\ \A f \in Fingerprints :
           /\ cache[f].dir => rootExists
           /\ (cache[f].src \/ cache[f].bin \/ cache[f].meta) => cache[f].dir

(* ------------------------------ claims -------------------------------- *)
\* A cached run of gogo: neither -once, -clear nor -ver.
Cached(s) == s.frontend = "gogo" /\ s.cmd = "run" /\ ~s.noCache

\* The input has been read and main has gone on with it.
HasInput(s) == s.pc \notin {"idle", "main"} /\ s.outcome # "read error"

\* The input is one the checks of main turn down.
Rejected(in) == in # << >> /\ (~validateCode(in) \/ stripShebangErr(in))

\* C1: when a cached invocation has ended, the entry directory of its source
\* is absent or holds both the binary and the metadata file.
C1_NoPartialEntryAtEnd ==
    \A p \in Procs :
        LET s == proc[p]
            e == cache[getCachePaths(s.code)]
        IN (s.pc = "done" /\ Cached(s) /\ HasInput(s)) =>
               (e.dir => (e.bin /\ e.meta))

\* C2: a lookup that reports a hit found an entry whose metadata was written.
C2_HitOnlyWithMetadata ==
    \A p \in Procs :
        LET s == proc[p] IN
        (s.pc = "rc_spawn" /\ s.lookup = "hit") =>
            cache[getCachePaths(s.code)].meta

\* C3: for an input that main's checks turn down, no cache lookup, workspace,
\* go mod tidy, go build / go run or launch has happened, and the invocation
\* ends with a validation error.
C3_RejectedBeforePipeline ==
    \A p \in Procs :
        LET s == proc[p] IN
        (HasInput(s) /\ Rejected(s.input)) =>
            /\ s.nLookup = 0 /\ s.nWs = 0
            /\ s.nTidy = 0 /\ s.nBuild = 0 /\ s.nExec = 0
            /\ s.pc = "done" =>
                   s.outcome \in {"validation error", "shebang error"}

\* C4: a cached invocation on a valid source (a) runs go mod tidy and go build
\* before it launches the program when the source had no entry, and (b) runs
\* neither when the invocation before it was a cached one on the same source
\* whose builds succeeded and which started less than 3 days ago.
C4_SecondRunUsesCache ==
    \A p \in Procs :
        LET s == proc[p] IN
        (Cached(s) /\ HasInput(s) /\ s.input # << >> /\ ~Rejected(s.input)) =>
            /\ (~s.hadEntry /\ s.nExec >= 1) => (s.nTidy >= 1 /\ s.nBuild >= 1)
            /\ (prev.ok /\ prev.input = s.input /\ now - prev.start < TTL) =>
                   (s.nTidy = 0 /\ s.nBuild = 0)

\* C4's case: the second of two cached invocations on the same source has run
\* the program twice over without a go mod tidy or a go build, and ended well.
C4_Witness ==
    \E p \in Procs :
        LET s == proc[p] IN
        /\ Cached(s) /\ s.pc = "done" /\ s.exitCode = 0
        /\ s.input = SrcPlain /\ prev.ok /\ prev.input = s.input
        /\ now - prev.start < TTL
        /\ s.nExec >= 1 /\ s.nTidy = 0 /\ s.nBuild = 0

\* C5: each lookup step reports a hit exactly when the binary exists and its
\* age is less than 3 days; a hit goes on to run the binary, a miss goes on
\* to the rebuild with no error.
C5_LookupIsFreshnessTest ==
    [][\A p \in Procs :
           (proc[p].pc = "rc_lookup" /\ proc'[p].pc # "rc_lookup") =>
               LET e == cache[getCachePaths(proc[p].code)]
                   t == proc'[p]
               IN /\ (t.lookup = "hit") <=> (e.bin /\ now - e.binTime < TTL)
                  /\ (t.lookup = "hit") => t.pc = "rc_spawn"
                  /\ (t.lookup # "hit") =>
                         (t.lookup = "miss" /\ t.pc = "rc_mkdir" /\ t.err = "")
      ]_vars

\* C5's case: a lookup has just missed on a binary that is exactly 3 days old.
C5_Witness ==
    \E p \in Procs :
        LET s == proc[p]
            e == cache[getCachePaths(s.code)]
        IN /\ s.pc = "rc_mkdir" /\ s.lookup = "miss"
           /\ e.bin /\ now - e.binTime = TTL

\* C6: once runCached has returned a failed compile, nothing of the entry of
\* that fingerprint is left: no directory, source copy, binary or metadata.
C6_CompileFailureRemovesEntry ==
    \A p \in Procs :
        LET s == proc[p] IN
        (/\ Cached(s) /\ s.pc \in {"after_run", "done"}
         /\ s.err \in {"compilation failed", "build failed"}) =>
            cache[getCachePaths(s.code)] = EmptyEntry

\* C6's case: the compile failed while a stale entry was being rebuilt.
C6_Witness ==
    \E p \in Procs :
        LET s == proc[p]
            f == getCachePaths(s.code)
        IN /\ Cached(s) /\ s.pc = "after_run"
           /\ s.err = "compilation failed"
           /\ s.cache0[f].bin /\ s.cache0[f].meta
           /\ cache[f] = EmptyEntry

\* C7: when go mod tidy has failed in a cached run, go build was not run after
\* it and the cache is as runCached found it.
C7_TidyFailureLeavesCache ==
    \A p \in Procs :
        LET s == proc[p] IN
        (/\ Cached(s) /\ s.pc \in {"after_run", "done"}
         /\ s.err = "go mod tidy failed") =>
            /\ s.nBuild < s.nTidy
            /\ cache = s.cache0

\* C8: when runCached, runOnce or runWithGoModule has returned, the workspace
\* it created is gone.
C8_WorkspaceRemovedOnReturn ==
    \A p \in Procs :
        proc[p].pc \in {"after_run", "done"} => ~proc[p].ws

\* C8's case: a function that created a workspace has returned an error.
C8_Witness ==
    \E p \in Procs :
        LET s == proc[p] IN
        /\ s.pc = "after_run" /\ s.nWs >= 1 /\ s.err # "" /\ ~s.ws

\* C9: in a cached run no workspace exists while the binary is being executed.
C9_NoWorkspaceWhileRunning ==
    \A p \in Procs :
        (Cached(proc[p]) /\ proc[p].pc = "rc_running") => ~proc[p].ws

\* C10: after a clear that succeeded the cache root is gone and no
\* fingerprint has an entry, so that every lookup is a miss.
C10_ClearRemovesAll ==
    \A p \in Procs :
        (proc[p].pc = "done" /\ proc[p].outcome = "cleared") =>
            /\ ~rootExists
            /\ \A f \in Fingerprints :
                   /\ cache[f] = EmptyEntry
                   /\ ~(cache[f].bin /\ now - cache[f].binTime < TTL)

\* C10's case: the clear followed an invocation that had built an entry.
C10_Witness ==
    \E p \in Procs :
        /\ proc[p].pc = "done" /\ proc[p].outcome = "cleared"
        /\ prev.ok

\* The input starts with a directive line that ends in a newline, and what
\* follows the line passes validateCode.
DirectiveInput(in) ==
    /\ Len(in) > 2 /\ in[1] = "#" /\ in[2] = "!"
    /\ IndexFrom(in, NL, 3) # 0
    /\ validateCode(SubSeq(in, IndexFrom(in, NL, 3) + 1, Len(in)))

\* C11: an input made of a newline-terminated directive line and a program
\* that begins with a package clause is not turned down by main's checks, and
\* whatever is looked up in the cache or built for it is the bytes after the
\* directive line.
C11_DirectiveStripped ==
    \A p \in Procs :
        LET s == proc[p] IN
        (HasInput(s) /\ s.cmd = "run" /\ DirectiveInput(s.input)) =>
            /\ s.outcome \notin {"validation error", "shebang error"}
            /\ (s.nLookup >= 1 \/ s.nWs >= 1 \/ s.nBuild >= 1) =>
                   s.code = SubSeq(s.input, IndexFrom(s.input, NL, 3) + 1,
                                   Len(s.input))

\* C12: an empty input ends the invocation as a usage error: the usage text
\* on the error stream, a non-zero exit code, and no cache lookup, entry,
\* workspace or subprocess of the toolchain on the way.
C12_EmptyInputIsUsageError ==
    \A p \in Procs :
        LET s == proc[p] IN
        (HasInput(s) /\ s.cmd = "run" /\ s.input = << >>) =>
            /\ s.nLookup = 0 /\ s.nWs = 0 /\ s.nTidy = 0
            /\ s.nBuild = 0 /\ s.nExec = 0
            /\ ~cache[getCachePaths(s.input)].dir \/ s.hadEntry
            /\ s.pc = "done" =>
                   /\ s.outcome = "usage" /\ s.stream = "stderr"
                   /\ s.exitCode # 0

\* C13: an invocation that ran a source ends with exit code 1 when the read
\* failed, when the input was turned down by validateCode or stripShebang, or
\* when a step of the pipeline (go mod tidy, the build, the launch of the
\* program, or any other) returned an error; it ends with exit code 0 when a
\* non-empty valid input was read and the pipeline's last call, which
\* launched the program, returned no error.
C13_ExitCodes ==
    \A p \in Procs :
        LET s == proc[p] IN
        (s.pc = "done" /\ s.cmd = "run") =>
            /\ (\/ s.outcome = "read error"
                \/ HasInput(s) /\ Rejected(s.input)
                \/ s.err # "") => s.exitCode = 1
            /\ (/\ HasInput(s) /\ s.input # << >> /\ ~Rejected(s.input)
                /\ s.err = "" /\ s.nExec >= 1) => s.exitCode = 0

\* C13's case: gogo's second call of the pipeline failed and main exited 1.
C13_Witness ==
    \E p \in Procs :
        LET s == proc[p] IN
        /\ s.pc = "done" /\ s.frontend = "gogo" /\ s.cmd = "run"
        /\ s.pass = 2 /\ s.err = "go mod tidy failed" /\ s.exitCode = 1

\* C14: when the binary launched by runBinary ends, runCached's caller gets
\* nil for status 0 and otherwise an exit error carrying the very status the
\* binary ended with; and once a binary has ended with a non-zero status the
\* invocation's only further step is main's single report of it (exit 1):
\* no lookup, workspace, go mod tidy, go build or launch follows.
C14_StatusSurfacedOnce ==
    [][\A p \in Procs :
          LET s == proc[p]
              n == proc'[p]
          IN
          /\ (s.pc = "rc_running" /\ n.pc # "rc_running") =>
                 /\ n.pc = "after_run" /\ n.ran
                 /\ n.errCode = n.progExit
                 /\ (n.progExit = 0) <=> (n.err = "")
                 /\ (n.progExit # 0) <=> (n.err = "exit status")
                 /\ n.nExec = s.nExec
          /\ (s.ran /\ s.progExit # 0 /\ n # s) =>
                 \/ /\ s.pc = "after_run" /\ n.pc = "done"
                    /\ n.exitCode = 1 /\ n.outcome = "run error"
                    /\ n.errCode = s.progExit
                    /\ n.nLookup = s.nLookup /\ n.nWs = s.nWs
                    /\ n.nTidy = s.nTidy /\ n.nBuild = s.nBuild
                    /\ n.nExec = s.nExec
                 \/ s.pc = "done" /\ n.pc = "idle"]_vars

\* C14's case: a binary ended with status 2 and main has reported the error.
C14_Witness ==
    \E p \in Procs :
        LET s == proc[p] IN
        /\ s.pc = "done" /\ s.ran /\ s.progExit = 2 /\ s.errCode = 2
        /\ s.err = "exit status" /\ s.nExec = 1

\* The byte sequence starts with the two-byte marker of a directive line.
Marked(x) == Len(x) >= 2 /\ x[1] = "#" /\ x[2] = "!"

\* C15: for every byte sequence x, stripShebang returns x and no error when x
\* does not start with "#!"; returns the bytes after the first newline and no
\* error when x starts with "#!" and holds a newline; and returns an error
\* when x starts with "#!" and holds no newline.
C15_StripContract ==
    (call.fn = "stripShebang" /\ Len(call.res) >= 1) =>
        LET x == call.arg
            hasNL == \E i \in 1 .. Len(x) : x[i] = NL
            first == CHOOSE i \in 1 .. Len(x) :
                         x[i] = NL /\ \A j \in 1 .. (i - 1) : x[j] # NL
        IN
        /\ ~Marked(x) => (call.res[1] = x /\ ~call.errs[1])
        /\ (Marked(x) /\ hasNL) =>
               (call.res[1] = SubSeq(x, first + 1, Len(x)) /\ ~call.errs[1])
        /\ (Marked(x) /\ ~hasNL) => call.errs[1]

\* The byte sequence starts with a directive line that ends in a newline.
DirectiveLine(x) == Len(x) > 2 /\ Marked(x) /\ \E i \in 3 .. Len(x) : x[i] = NL

\* C16 as stated: whenever stripShebang succeeds on x, applying it to its
\* own result returns that result again; and stripShebang returns every x
\* that does not start with "#!" as it is.
C16_StripIdempotent ==
    /\ (call.fn = "stripShebang" /\ Len(call.res) >= 1 /\ ~Marked(call.arg)) =>
           (call.res[1] = call.arg /\ ~call.errs[1])
    /\ (call.fn = "stripShebang" /\ Len(call.res) = 2) =>
           call.res[2] = call.res[1]

\* C16, amended: whenever stripShebang succeeds on x and its result does
\* not itself start with a newline-terminated directive line, applying it
\* to that result returns the result again; and stripShebang returns every
\* x that does not start with "#!" as it is, with no error.
C16_StripIdempotentOnStripped ==
    /\ (call.fn = "stripShebang" /\ Len(call.res) >= 1 /\ ~Marked(call.arg)) =>
           (call.res[1] = call.arg /\ ~call.errs[1])
    /\ (call.fn = "stripShebang" /\ Len(call.res) = 2
           /\ ~DirectiveLine(call.res[1])) =>
           call.res[2] = call.res[1]

\* C16's case: a directive line was stripped from x, something is left, and
\* the second application returned what the first did.
C16_Witness ==
    /\ call.fn = "stripShebang" /\ Len(call.res) = 2
    /\ DirectiveLine(call.arg) /\ call.res[1] # call.arg
    /\ call.res[1] # << >> /\ call.res[2] = call.res[1]

\* The lines of a compiler output that are not blank, in order.
NonBlank(raw) == SelectSeq(Split(raw), LAMBDA l : TrimSpace(l) # << >>)

\* The line, white space around it aside, is file:line:column: message.
Shaped(l) == FindStringSubmatch(TrimSpace(l)) # << >>

\* C17: parseGoErrors gives one entry for each non-blank line of the
\* compiler output, in the order of the lines: for a line of the shape
\* file:line:column: message a diagnostic with that file, line, column and
\* message, for any other line a passthrough whose text is the line as it
\* was in the output.
C17_OneEntryPerLine ==
    (call.fn = "parseGoErrors" /\ call.res # << >>) =>
        LET es == call.res[1].entries
            ls == NonBlank(call.arg)
        IN
        /\ Len(es) = Len(ls)
        /\ \A k \in 1 .. Len(ls) :
               IF Shaped(ls[k])
               THEN LET m == FindStringSubmatch(TrimSpace(ls[k])) IN
                    /\ es[k].kind = "diagnostic"
                    /\ es[k].file = m[2] /\ es[k].line = Atoi(m[3])
                    /\ es[k].col = m[4]
                    /\ \/ es[k].typ = TypError /\ es[k].desc = m[5]
                       \/ /\ es[k].typ \in ErrorTypes
                          /\ HasPrefix(m[5], es[k].typ \o <<":">>)
                          /\ es[k].desc =
                                 TrimSpace(SubSeq(m[5], Len(es[k].typ) + 2, Len(m[5])))
               ELSE es[k] = [kind |-> "passthrough", text |-> ls[k]]

\* C18: from the moment buildWith has reported a failed build (before the
\* rollback of the entry, and so before main's exit) until the invocation's
\* end: when go build left text in stderr, parseGoErrors has printed that
\* text's entries and the result is "compilation failed"; when it left none,
\* parseGoErrors has printed nothing and the result is "build failed".
C18_RenderedBeforeReport ==
    \A p \in Procs :
        LET s == proc[p] IN
        (/\ Cached(s) /\ s.pc \in {"rc_rollback", "after_run", "done"}
         /\ s.err \in {"compilation failed", "build failed"}) =>
            /\ (s.stderr # << >>) =>
                   /\ s.err = "compilation failed"
                   /\ s.rendered = <<parseGoErrors(s.stderr)>>
            /\ (s.stderr = << >>) =>
                   /\ s.err = "build failed"
                   /\ s.rendered = << >>

\* C18's case: go build has failed with a diagnostic in stderr, it has been
\* printed, and the entry directory has not been removed yet.
C18_Witness ==
    \E p \in Procs :
        LET s == proc[p] IN
        /\ Cached(s) /\ s.pc = "rc_rollback" /\ s.stderr = LineUndefined
        /\ s.rendered # << >> /\ s.rendered[1].banner
        /\ cache[getCachePaths(s.code)].dir

\* C19: within one invocation the pipeline (runCached, runOnce or
\* runWithGoModule) is entered at most once, the cache looked up at most
\* once, and the user's program launched at most once.
C19_SourceProcessedOnce ==
    \A p \in Procs :
        /\ proc[p].pass <= 1
        /\ proc[p].nLookup <= 1
        /\ proc[p].nExec <= 1

=============================================================================
